---- MODULE Spec2Model ----
(***************************************************************************)
(* The transactional token reader of erl_parse (src/src/parser.rs) and the *)
(* Expect comparisons of src/src/traits/expect.rs.                         *)
(*                                                                         *)
(* A Parser owns a token reader and a stack of transaction buffers.  The   *)
(* closure handed to peek/transaction is arbitrary parsing code: between   *)
(* the Enter and the Return action of a call it may read tokens, ask eos   *)
(* and open nested peeks and transactions, and then it returns Ok or Err.  *)
(*                                                                         *)
(* Spec runs the reader under such closures on streams of opaque tokens;   *)
(* SpecExpect runs expect and expect_any, whose closures are fixed, on     *)
(* streams of tokens of every kind.  The variables orig, log and last are  *)
(* history variables: no operation reads them.                             *)
(***************************************************************************)
EXTENDS Integers, Sequences, FiniteSets, TLC

\* ------------------------------------------------------------------ bounds
MaxLen == 3        \* longest token stream handed to the parser
MaxDepth == 2      \* deepest nesting of open peek/transaction calls
MaxExpectLen == 1  \* longest token stream an expect/expect_any call is run on
MaxCandidates == 2 \* longest candidate list handed to expect_any

\* ------------------------------------------------------------------ tokens
\* LexicalToken: a kind, the literal value it carries, and its position.
TokenKinds ==
    {"atom", "char", "float", "integer", "keyword", "string", "symbol", "variable"}

\* The values an expectation may name, per token kind.
ValuesOf(k) ==
    CASE k = "atom"     -> {"a", "b"}
      [] k = "char"     -> {"$c", "$d"}
      [] k = "float"    -> {"0.5", "0.5000000000000004"}
      [] k = "integer"  -> {"1", "2"}
      [] k = "keyword"  -> {"when", "end"}
      [] k = "string"   -> {"s", "t"}
      [] k = "symbol"   -> {":", "||"}
      [] k = "variable" -> {"X", "Y"}

\* The tokens the streams are built from.  The reader never looks inside a
\* token and the positions tell the tokens of a stream apart; the Expect
\* comparisons get a token of every kind, the float lying between the two
\* floats an expectation may name.
ReaderAlphabet == { <<"atom", "a">> }
ExpectAlphabet ==
    { <<"atom", "a">>, <<"char", "$c">>, <<"float", "0.5000000000000001">>,
      <<"integer", "1">>, <<"keyword", "end">>,
      <<"string", "s">>, <<"symbol", ":">>, <<"variable", "X">> }

Token(k, v, p) == [kind |-> k, value |-> v, pos |-> p]
NoToken == Token("none", "", 0)

Streams(alphabet, len) ==
    UNION { { [i \in 1..n |-> Token(f[i][1], f[i][2], i)] : f \in [1..n -> alphabet] }
            : n \in 0..len }

\* ----------------------------------------------------------------- results
\* Result<P>: Ok(value) or Err(ErrorKind).  An error keeps the token it names
\* (UnexpectedToken) and the two sides of a failed comparison (InvalidInput).
Ok(v) == [ok |-> TRUE, kind |-> "Ok", val |-> v, expected |-> ""]
Err(k, t, e) == [ok |-> FALSE, kind |-> k, val |-> t, expected |-> e]
NoResult == [ok |-> TRUE, kind |-> "none", val |-> NoToken, expected |-> ""]
Bool(b) == Token("bool", IF b THEN "true" ELSE "false", 0)

\* What a closure handed to peek/transaction may return.
ClosureResults ==
    { Ok(Token("node", "n1", 0)), Ok(Token("node", "n2", 0)),
      Err("UnexpectedEos", NoToken, ""), Err("Other", NoToken, "") }

\* let y = x in F(y): x is evaluated once, before F.
Bind(x, F(_)) == CHOOSE r \in { F(y) : y \in {x} } : TRUE

\* ------------------------------------------------------------ token reader
\* TokenRead: the pending stream, front first.
try_read_token(rd) ==
    IF rd = <<>> THEN [reader |-> rd, tok |-> <<>>]
    ELSE [reader |-> Tail(rd), tok |-> <<Head(rd)>>]

read_token(rd) ==
    Bind(try_read_token(rd), LAMBDA r :
        IF r.tok = <<>>
        THEN [reader |-> r.reader, res |-> Err("UnexpectedEos", NoToken, "")]
        ELSE [reader |-> r.reader, res |-> Ok(r.tok[1])])

unread_token(rd, t) == <<t>> \o rd

\* ------------------------------------------------------------------ Parser
\* A parser state is [reader, transactions]; every operation returns the new
\* state, with its result in res where it has one.
P(rd, txs) == [reader |-> rd, transactions |-> txs]
PR(rd, txs, r) == [reader |-> rd, transactions |-> txs, res |-> r]

Last(s) == s[Len(s)]
Front(s) == SubSeq(s, 1, Len(s) - 1)

RECURSIVE Rev(_)
Rev(s) == IF s = <<>> THEN <<>> ELSE Append(Rev(Tail(s)), Head(s))

\* next_token recording the token in the outermost buffer.
next_token_outermost(p) ==
    Bind(read_token(p.reader), LAMBDA r :
        IF ~r.res.ok THEN PR(r.reader, p.transactions, r.res)
        ELSE IF p.transactions # <<>>
             THEN PR(r.reader, [p.transactions EXCEPT ![1] = Append(@, r.res.val)],
                     r.res)
             ELSE PR(r.reader, p.transactions, r.res))

\* next_token recording the token in every open buffer.
next_token_every_buffer(p) ==
    Bind(read_token(p.reader), LAMBDA r :
        IF ~r.res.ok THEN PR(r.reader, p.transactions, r.res)
        ELSE PR(r.reader,
                [i \in DOMAIN p.transactions |-> Append(p.transactions[i], r.res.val)],
                r.res))

next_token(p) ==
    Bind(read_token(p.reader), LAMBDA r :
        IF ~r.res.ok THEN PR(r.reader, p.transactions, r.res)
        ELSE IF p.transactions # <<>>
             THEN PR(r.reader,
                     [p.transactions EXCEPT ![Len(p.transactions)] = Append(@, r.res.val)],
                     r.res)
             ELSE PR(r.reader, p.transactions, r.res))

start_transaction(p) == P(p.reader, Append(p.transactions, <<>>))

\* commit_transaction dropping the committed buffer.
commit_transaction_drop(p) == P(p.reader, Front(p.transactions))

\* commit_transaction putting the committed buffer before the parent's tokens.
commit_transaction_prepend(p) ==
    LET last == Last(p.transactions)
        rest == Front(p.transactions)
    IN  IF rest # <<>>
        THEN P(p.reader, [rest EXCEPT ![Len(rest)] = last \o @])
        ELSE P(p.reader, rest)

commit_transaction(p) ==
    LET last == Last(p.transactions)
        rest == Front(p.transactions)
    IN  IF rest # <<>>
        THEN P(p.reader, [rest EXCEPT ![Len(rest)] = @ \o last])
        ELSE P(p.reader, rest)

RECURSIVE UnreadAll(_, _)
UnreadAll(rd, ts) ==
    IF ts = <<>> THEN rd ELSE UnreadAll(unread_token(rd, Head(ts)), Tail(ts))

\* abort_transaction without the rev().
abort_transaction_forward(p) ==
    LET last == Last(p.transactions)
    IN  P(UnreadAll(p.reader, last), Front(p.transactions))

abort_transaction(p) ==
    LET last == Last(p.transactions)
    IN  P(UnreadAll(p.reader, Rev(last)), Front(p.transactions))

\* peek committing when f succeeds.
peek_return_commits(p, r) ==
    Bind(IF r.ok THEN commit_transaction(p) ELSE abort_transaction(p), LAMBDA q :
        PR(q.reader, q.transactions, r))

\* peek leaving its buffer open.
peek_return_unreleased(p, r) == PR(p.reader, p.transactions, r)

\* peek(f), after f has returned r in state p.
peek_return(p, r) ==
    Bind(abort_transaction(p), LAMBDA q : PR(q.reader, q.transactions, r))

\* transaction committing whatever f returns.
transaction_return_always_commits(p, r) ==
    Bind(commit_transaction(p), LAMBDA q : PR(q.reader, q.transactions, r))

\* transaction(f), after f has returned r in state p.
transaction_return(p, r) ==
    Bind(IF r.ok THEN commit_transaction(p) ELSE abort_transaction(p), LAMBDA q :
        PR(q.reader, q.transactions, r))

\* eos without the unread_token.
eos_consuming(p) ==
    Bind(try_read_token(p.reader), LAMBDA r :
        IF r.tok # <<>>
        THEN PR(r.reader, p.transactions, Ok(Bool(FALSE)))
        ELSE PR(r.reader, p.transactions, Ok(Bool(TRUE))))

eos(p) ==
    Bind(try_read_token(p.reader), LAMBDA r :
        IF r.tok # <<>>
        THEN PR(unread_token(r.reader, r.tok[1]), p.transactions, Ok(Bool(FALSE)))
        ELSE PR(r.reader, p.transactions, Ok(Bool(TRUE))))

\* ------------------------------------------------------------------ Expect
\* f64 values in units of 2^-53 (half of f64::EPSILON, the spacing of the
\* floats in [0.5, 1)).
F64(v) ==
    CASE v = "0.5" -> 0
      [] v = "0.5000000000000001" -> 1
      [] v = "0.5000000000000004" -> 4

F64_EPSILON == 2

Abs(x) == IF x < 0 THEN -x ELSE x

Unit == Ok(NoToken)

AtomToken_expect(t, expected) ==
    IF t.value = expected THEN Unit ELSE Err("InvalidInput", t, expected)
CharToken_expect(t, expected) ==
    IF t.value = expected THEN Unit ELSE Err("InvalidInput", t, expected)
FloatToken_expect(t, expected) ==
    IF Abs(F64(t.value) - F64(expected)) < F64_EPSILON
    THEN Unit ELSE Err("InvalidInput", NoToken, "")
IntegerToken_expect(t, expected) ==
    IF t.value = expected THEN Unit ELSE Err("InvalidInput", t, expected)
\* A keyword comparison that accepts every keyword.
KeywordToken_expect_any_keyword(t, expected) == Unit

KeywordToken_expect(t, expected) ==
    IF t.value = expected THEN Unit ELSE Err("InvalidInput", t, expected)
StringToken_expect(t, expected) ==
    IF t.value = expected THEN Unit ELSE Err("InvalidInput", t, expected)
SymbolToken_expect(t, expected) ==
    IF t.value = expected THEN Unit ELSE Err("InvalidInput", t, expected)
VariableToken_expect(t, expected) ==
    IF t.value = expected THEN Unit ELSE Err("InvalidInput", t, expected)

\* actual.expect(expected), dispatched on the token type P.
Expect_expect(t, expected) ==
    CASE t.kind = "atom"     -> AtomToken_expect(t, expected)
      [] t.kind = "char"     -> CharToken_expect(t, expected)
      [] t.kind = "float"    -> FloatToken_expect(t, expected)
      [] t.kind = "integer"  -> IntegerToken_expect(t, expected)
      [] t.kind = "keyword"  -> KeywordToken_expect(t, expected)
      [] t.kind = "string"   -> StringToken_expect(t, expected)
      [] t.kind = "symbol"   -> SymbolToken_expect(t, expected)
      [] t.kind = "variable" -> VariableToken_expect(t, expected)

\* parser.parse::<P>() for a token type P: read the next token and require
\* it to be of kind k.
parse_token(p, k) ==
    Bind(next_token(p), LAMBDA r :
        IF ~r.res.ok THEN r
        ELSE IF r.res.val.kind = k THEN r
             ELSE PR(r.reader, r.transactions, Err("UnexpectedToken", r.res.val, "")))

\* The closure of expect: parse a P, compare it, return it.
expect_closure(p, k, expected) ==
    Bind(parse_token(p, k), LAMBDA a :
        IF ~a.res.ok THEN a
        ELSE Bind(Expect_expect(a.res.val, expected), LAMBDA e :
                 IF ~e.ok THEN PR(a.reader, a.transactions, e) ELSE a))

\* expect without the transaction around its closure.
expect_unguarded(p, k, expected) == expect_closure(p, k, expected)

expect(p, k, expected) ==
    Bind(expect_closure(start_transaction(p), k, expected), LAMBDA q :
        transaction_return(P(q.reader, q.transactions), q.res))

\* The candidate loop of expect_any: None is NoResult.
RECURSIVE expect_any_loop(_, _, _)
expect_any_loop(actual, cands, last_error) ==
    IF cands = <<>> THEN last_error
    ELSE Bind(Expect_expect(actual, Head(cands)), LAMBDA e :
             IF ~e.ok THEN expect_any_loop(actual, Tail(cands), e)
             ELSE NoResult)

expect_any(p, k, cands) ==
    Bind(parse_token(p, k), LAMBDA a :
        IF ~a.res.ok THEN a
        ELSE Bind(expect_any_loop(a.res.val, cands, NoResult), LAMBDA last_error :
                 IF last_error # NoResult
                 THEN PR(a.reader, a.transactions, last_error)
                 ELSE a))

\* ------------------------------------------------------------------- state
VARIABLES
    reader,        \* Parser.reader: the pending token stream
    transactions,  \* Parser.transactions: the stack of buffers, innermost last
    stack,         \* the open peek/transaction calls, innermost last
    result,        \* what the last call returned
    orig,          \* history: the token stream the parser was built on
    log,           \* history: tokens read and not undone by an abort, in order
    last           \* history: the last call, with the state it started in

vars == <<reader, transactions, stack, result, orig, log, last>>

Self == P(reader, transactions)

\* An open call: the state it was entered in and what has happened inside
\* it: clean (every call that returned inside it aborted), inner (the tokens
\* calls inside it committed into its buffer), undone (the most tokens a
\* call inside it pushed back).
Frame(op) ==
    [op |-> op, reader |-> reader, transactions |-> transactions,
     mark |-> Len(log), clean |-> TRUE, inner |-> <<>>, undone |-> 0]
NoFrame ==
    [op |-> "none", reader |-> <<>>, transactions |-> <<>>,
     mark |-> 0, clean |-> TRUE, inner |-> <<>>, undone |-> 0]

Max(a, b) == IF a < b THEN b ELSE a

Call(op, frame, k, expected, r) ==
    [op |-> op, reader |-> reader, transactions |-> transactions,
     frame |-> frame, kind |-> k, expected |-> expected, fres |-> r]

\* The candidate lists handed to expect_any: of one kind, without repeats.
IsInjective(c) == \A i, j \in DOMAIN c : c[i] = c[j] => i = j
CandidateLists ==
    UNION { { <<k, c>> : c \in { d \in [1..n -> ValuesOf(k)] : IsInjective(d) } }
            : <<k, n>> \in TokenKinds \X (0..MaxCandidates) }

\* Parser::new(reader)
New(streams) ==
    /\ orig \in streams
    /\ reader = orig
    /\ transactions = <<>>
    /\ stack = <<>>
    /\ result = NoResult
    /\ log = <<>>
    /\ last = [op |-> "new", reader |-> orig, transactions |-> <<>>,
               frame |-> NoFrame, kind |-> "", expected |-> <<>>, fres |-> NoResult]

Install(q) ==
    /\ reader' = q.reader
    /\ transactions' = q.transactions
    /\ result' = q.res

NextToken ==
    LET q == next_token(Self) IN
    /\ Install(q)
    /\ log' = IF q.res.ok THEN Append(log, q.res.val) ELSE log
    /\ last' = Call("next_token", NoFrame, "", <<>>, NoResult)
    /\ UNCHANGED <<stack, orig>>

Eos ==
    /\ Install(eos(Self))
    /\ last' = Call("eos", NoFrame, "", <<>>, NoResult)
    /\ UNCHANGED <<stack, orig, log>>

\* peek(f) up to the call of f.
PeekEnter ==
    /\ Len(stack) < MaxDepth
    /\ LET q == start_transaction(Self) IN
         /\ reader' = q.reader
         /\ transactions' = q.transactions
    /\ stack' = Append(stack, Frame("peek"))
    /\ last' = Call("peek_enter", NoFrame, "", <<>>, NoResult)
    /\ UNCHANGED <<result, orig, log>>

\* transaction(f) up to the call of f.
TransactionEnter ==
    /\ Len(stack) < MaxDepth
    /\ LET q == start_transaction(Self) IN
         /\ reader' = q.reader
         /\ transactions' = q.transactions
    /\ stack' = Append(stack, Frame("transaction"))
    /\ last' = Call("transaction_enter", NoFrame, "", <<>>, NoResult)
    /\ UNCHANGED <<result, orig, log>>

\* The enclosing call learns that the call of frame c inside it returned,
\* committing or aborting the buffer buf.
Noted(frames, c, committed, buf) ==
    IF frames = <<>> THEN frames
    ELSE [frames EXCEPT ![Len(frames)] =
            [@ EXCEPT !.clean = @ /\ c.clean /\ ~committed,
                      !.inner = IF committed THEN @ \o buf ELSE @,
                      !.undone = IF committed THEN Max(@, c.undone)
                                 ELSE Max(@, Max(c.undone, Len(buf)))]]

\* f returns r to peek, which aborts and returns r.
PeekReturn ==
    /\ stack # <<>>
    /\ Last(stack).op = "peek"
    /\ \E r \in ClosureResults :
         /\ Install(peek_return(Self, r))
         /\ last' = Call("peek", Last(stack), "", <<>>, r)
    /\ stack' = Noted(Front(stack), Last(stack), FALSE, Last(transactions))
    /\ log' = SubSeq(log, 1, Last(stack).mark)
    /\ UNCHANGED orig

\* f returns r to transaction, which commits or aborts and returns r.
TransactionReturn ==
    /\ stack # <<>>
    /\ Last(stack).op = "transaction"
    /\ \E r \in ClosureResults :
         /\ Install(transaction_return(Self, r))
         /\ last' = Call("transaction", Last(stack), "", <<>>, r)
         /\ stack' = Noted(Front(stack), Last(stack), r.ok, Last(transactions))
         /\ log' = IF r.ok THEN log ELSE SubSeq(log, 1, Last(stack).mark)
    /\ UNCHANGED orig

\* parser.expect::<P>(&v), P the token type of kind k.
ExpectCall(k, v) ==
    LET q == expect(Self, k, v) IN
    /\ Install(q)
    /\ last' = Call("expect", NoFrame, k, <<v>>, NoResult)
    /\ stack' = Noted(stack, NoFrame, q.res.ok,
                       IF reader = <<>> THEN <<>> ELSE <<Head(reader)>>)
    /\ log' = IF q.res.ok THEN Append(log, q.res.val) ELSE log
    /\ UNCHANGED orig

Expect == \E k \in TokenKinds : \E v \in ValuesOf(k) : ExpectCall(k, v)

\* The expectations that tell the tokens of ReaderAlphabet apart: the
\* value they carry, another value, another kind.
ExpectAtom ==
    \E kv \in { <<"atom", "a">>, <<"atom", "b">>, <<"variable", "X">> } :
        ExpectCall(kv[1], kv[2])

ExpectAny ==
    \E kc \in CandidateLists :
        LET q == expect_any(Self, kc[1], kc[2]) IN
        /\ Install(q)
        /\ last' = Call("expect_any", NoFrame, kc[1], kc[2], NoResult)
        /\ log' = IF reader # <<>> THEN Append(log, Head(reader)) ELSE log
        /\ UNCHANGED <<stack, orig>>

\* The transactional reader under arbitrary nested closures.
Init == New(Streams(ReaderAlphabet, MaxLen))

Next ==
    \/ NextToken
    \/ Eos
    \/ PeekEnter
    \/ TransactionEnter
    \/ PeekReturn
    \/ TransactionReturn

Spec == Init /\ [][Next]_vars

\* expect and expect_any, called at the top level or inside an open
\* transaction, before or after other reads.
InitExpect == New(Streams(ExpectAlphabet, MaxExpectLen))

NextExpect ==
    \/ NextToken
    \/ (stack = <<>> /\ TransactionEnter)
    \/ Expect
    \/ ExpectAny

SpecExpect == InitExpect /\ [][NextExpect]_vars

\* ------------------------------------------------------------------ claims
Aborted == last.op = "peek" \/ (last.op = "transaction" /\ ~last.fres.ok)
Committed == last.op = "transaction" /\ last.fres.ok
\* The buffer the call that just returned had filled.
ReturnedBuffer == Last(last.transactions)

\* C1: when the outermost of a nest of peek/transaction calls that all
\* aborted returns, the pending stream is the one the outermost call was
\* entered with, so later reads see what they would have seen without them.
C1_NestedAbortsRestoreStream ==
    (Aborted /\ stack = <<>> /\ last.frame.clean) => reader = last.frame.reader

\* A peek returned at the top level after reading two tokens itself and after
\* a call inside it had pushed tokens back.
C1_Witness ==
    /\ last.op = "peek" /\ stack = <<>> /\ last.frame.clean
    /\ last.frame.undone >= 1
    /\ Len(ReturnedBuffer) >= 2

\* C2: the tokens read and not undone by an abort, in read order, followed
\* by the pending tokens, are the original stream.
C2_TokenConservation == log \o reader = orig

\* A transaction committed at the top level after a call inside it had
\* aborted, with tokens consumed and tokens pending.
C2_Witness ==
    /\ Committed /\ stack = <<>>
    /\ last.frame.undone >= 1
    /\ log # <<>> /\ reader # <<>>

\* C3: a successful next_token returns the head of the pending stream and
\* appends it to the innermost buffer only; with no transaction open the
\* buffer stack stays empty; a failed read changes no buffer.
C3_NextTokenEffect ==
    last.op = "next_token" =>
        IF last.reader # <<>>
        THEN /\ result = Ok(Head(last.reader))
             /\ reader = Tail(last.reader)
             /\ Len(transactions) = Len(last.transactions)
             /\ \A i \in 1..Len(transactions) :
                    transactions[i] =
                        IF i = Len(transactions)
                        THEN Append(last.transactions[i], Head(last.reader))
                        ELSE last.transactions[i]
        ELSE /\ ~result.ok /\ result.kind = "UnexpectedEos"
             /\ reader = last.reader
             /\ transactions = last.transactions

\* A token read with two transactions open, the outer buffer not empty.
C3_Witness ==
    /\ last.op = "next_token" /\ result.ok
    /\ Len(last.transactions) = 2
    /\ last.transactions[1] # <<>>

\* C4: a commit with a parent appends the buffer after the parent's tokens
\* and leaves the outer buffers alone; a commit of the outermost transaction
\* empties the buffer stack; neither touches the pending stream; and an
\* abort of a call into which calls inside it committed tokens still
\* restores the stream the call was entered with.
C4_CommitMergesIntoParent ==
    /\ Committed =>
        /\ reader = last.reader
        /\ Len(transactions) = Len(last.transactions) - 1
        /\ \A i \in 1..Len(transactions) :
               transactions[i] =
                   IF i = Len(transactions)
                   THEN last.transactions[i] \o ReturnedBuffer
                   ELSE last.transactions[i]
    /\ (Aborted /\ last.frame.inner # <<>>) => reader = last.frame.reader

\* A peek returned whose buffer held a token of its own followed by a token
\* committed by a transaction inside it.
C4_Witness ==
    /\ last.op = "peek"
    /\ Len(last.frame.inner) >= 1
    /\ Len(ReturnedBuffer) > Len(last.frame.inner)
    /\ SubSeq(ReturnedBuffer, Len(ReturnedBuffer) - Len(last.frame.inner) + 1,
              Len(ReturnedBuffer)) = last.frame.inner

\* C5: peek returns what f returned and leaves the pending stream as it was
\* when peek was called.
C5_PeekKeepsResultUndoesReads ==
    last.op = "peek" => (result = last.fres /\ reader = last.frame.reader)

\* A peek whose f read two tokens and succeeded.
C5_Witness ==
    /\ last.op = "peek" /\ last.fres.ok
    /\ Len(ReturnedBuffer) >= 2

\* C6: transaction returns what f returned; when f failed the pending stream
\* is the one the call was entered with; when f succeeded nothing is pushed
\* back.
C6_TransactionCommitsOnlyOnSuccess ==
    last.op = "transaction" =>
        /\ result = last.fres
        /\ ~last.fres.ok => reader = last.frame.reader
        /\ last.fres.ok => reader = last.reader

\* A transaction whose f read two tokens and failed.
C6_Witness ==
    /\ last.op = "transaction" /\ ~last.fres.ok
    /\ Len(ReturnedBuffer) >= 2
    /\ reader # last.reader

\* C7: eos answers true exactly when the next next_token would fail, and
\* leaves the pending stream and every buffer as they were.
C7_EosIsExactAndNonConsuming ==
    last.op = "eos" =>
        /\ result.ok
        /\ (result.val = Bool(TRUE)) <=> ~next_token(Self).res.ok
        /\ (result.val = Bool(FALSE)) <=> next_token(Self).res.ok
        /\ reader = last.reader
        /\ transactions = last.transactions

\* eos answered false inside an open transaction that had read a token.
C7_Witness ==
    /\ last.op = "eos" /\ result.val = Bool(FALSE)
    /\ transactions # <<>> /\ Last(transactions) # <<>>

\* The comparison expect runs for a token type.
Accepts(k, actual, expected) ==
    IF k = "float"
    THEN Abs(F64(actual) - F64(expected)) < F64_EPSILON
    ELSE actual = expected

ExpectOn(k) == last.op = "expect" /\ last.reader # <<>> /\ Head(last.reader).kind = k

\* C8 as stated: expect on a token of the expected kind that carries a
\* different value fails with InvalidInput and leaves the stream unchanged.
C8_DifferentValueFails ==
    (ExpectOn(last.kind) /\ Head(last.reader).value # last.expected[1]) =>
        /\ ~result.ok /\ result.kind = "InvalidInput"
        /\ reader = last.reader

\* C8 amended: expect on a token of the expected kind whose value the kind's
\* comparison rejects (any different value, for a float a value at least
\* f64::EPSILON away) fails with InvalidInput and leaves the stream and the
\* buffers unchanged, the token being the next one read.
C8_RejectedValueFailsInPlace ==
    (ExpectOn(last.kind) /\ ~Accepts(last.kind, Head(last.reader).value, last.expected[1])) =>
        /\ ~result.ok /\ result.kind = "InvalidInput"
        /\ reader = last.reader
        /\ transactions = last.transactions
        /\ next_token(Self).res = Ok(Head(last.reader))

\* Keyword `when` expected, keyword `end` present, inside an open transaction.
C8_Witness ==
    /\ ExpectOn("keyword")
    /\ last.expected = <<"when">> /\ Head(last.reader).value = "end"
    /\ ~result.ok
    /\ last.transactions # <<>>

\* C9: expect(k, v) succeeds exactly when the next token is of kind k and
\* carries v (the same value for every kind but float, a value within
\* f64::EPSILON for float); it then returns that token, one token is gone
\* from the pending stream and it is recorded in the innermost open buffer.
C9_ExpectSucceedsIffKindAndValue ==
    last.op = "expect" =>
        /\ result.ok <=>
              /\ last.reader # <<>>
              /\ Head(last.reader).kind = last.kind
              /\ Accepts(last.kind, Head(last.reader).value, last.expected[1])
        /\ result.ok =>
              /\ result = Ok(Head(last.reader))
              /\ reader = Tail(last.reader)
              /\ transactions =
                    IF last.transactions = <<>> THEN <<>>
                    ELSE [last.transactions EXCEPT ![Len(last.transactions)] =
                            Append(@, Head(last.reader))]

\* expect succeeded on a keyword.
C9_Witness ==
    /\ ExpectOn("keyword") /\ result.ok
    /\ last.expected = <<"end">>

\* C10 as stated: expect_any on a token of the kind succeeds exactly when
\* the token's value equals at least one candidate, and when it equals none
\* it fails with the mismatch of the last candidate.
C10_ExpectAnySucceedsIffSomeCandidate ==
    (last.op = "expect_any" /\ last.reader # <<>> /\ Head(last.reader).kind = last.kind) =>
        LET t == Head(last.reader)
            cs == last.expected
            matches == { i \in DOMAIN cs : Accepts(last.kind, t.value, cs[i]) }
        IN  /\ result.ok <=> matches # {}
            /\ matches = {} =>
                  /\ ~result.ok
                  /\ cs # <<>>
                  /\ result = Expect_expect(t, cs[Len(cs)])

\* C11 as stated: an expect_any that fails because the token matches no
\* candidate leaves the pending stream as it was before the call, as a
\* failed expect does.
C11_ExpectAnyMismatchKeepsStream ==
    /\ (last.op = "expect_any" /\ ~result.ok /\ result.kind = "InvalidInput") =>
           reader = last.reader
    /\ (last.op = "expect" /\ ~result.ok) => reader = last.reader

\* The reader under arbitrary nested closures that also call expect.
NextNested ==
    \/ NextToken
    \/ Eos
    \/ PeekEnter
    \/ TransactionEnter
    \/ PeekReturn
    \/ TransactionReturn
    \/ ExpectAtom

SpecNested == Init /\ [][NextNested]_vars

\* C25: the open buffers are as many as the open peek/transaction calls;
\* when peek or transaction returns, with Ok or Err, it releases one buffer,
\* the innermost, which is the one it opened: the buffers are as many as
\* before the call and the ones below the enclosing one are the same; expect
\* returns with the buffers it was called with open; commit and abort never
\* run with no buffer open.
C25_TransactionStackBalance ==
    /\ Len(transactions) = Len(stack)
    /\ last.op \in {"peek", "transaction"} =>
           /\ last.transactions # <<>>
           /\ Len(last.transactions) = Len(last.frame.transactions) + 1
           /\ Len(transactions) = Len(last.frame.transactions)
           /\ \A i \in 1..(Len(transactions) - 1) :
                  transactions[i] = last.frame.transactions[i]
    /\ last.op = "expect" =>
           /\ Len(transactions) = Len(last.transactions)
           /\ \A i \in 1..(Len(transactions) - 1) :
                  transactions[i] = last.transactions[i]

\* A transaction that read a token and failed returned inside an open call,
\* after a call inside it had pushed a token back.
C25_Witness ==
    /\ last.op = "transaction" /\ ~last.fres.ok
    /\ Len(last.transactions) = MaxDepth
    /\ ReturnedBuffer # <<>>
    /\ last.frame.undone >= 1

\* The buffers one after the other, outermost first.
RECURSIVE Flat(_)
Flat(txs) == IF txs = <<>> THEN <<>> ELSE Head(txs) \o Flat(Tail(txs))

\* C26: a peek, or a transaction that fails, returning inside an open
\* transaction leaves every buffer as it was when the call was made; and at
\* any time the open buffers hold, in reading order and each once, the
\* tokens read since the outermost call was made and not pushed back since.
C26_AbortLeavesEnclosingBuffer ==
    /\ (Aborted /\ last.frame.transactions # <<>>) =>
           transactions = last.frame.transactions
    /\ stack # <<>> =>
           /\ Flat(transactions) = SubSeq(log, stack[1].mark + 1, Len(log))
           /\ IsInjective(Flat(transactions))

\* A token is read in an open transaction after a call inside it had read
\* it and pushed it back: it is the one token of the buffer.
C26_Witness ==
    /\ last.op = "next_token" /\ result.ok
    /\ Len(stack) = 1
    /\ stack[1].undone >= 1
    /\ stack[1].inner = <<>>
    /\ transactions = << <<result.val>> >>

\* ------------------------------------------------- grammar combinators
\* cst/primitives.rs works on a TokenReader: the whole token sequence, hidden
\* tokens (whitespace, comments) included, and the index of the next token.
\* A span is a pair of token indices.  trace is history: the primitive
\* parsers a combinator has called, in order.
MaxCombLen == 5

HiddenKinds == {"whitespace", "comment"}

CombAlphabet ==
    { <<"atom", "a">>, <<"whitespace", " ">>,
      <<"symbol", ",">>, <<"symbol", ";">>,
      <<"symbol", "[">>, <<"symbol", "]">>,
      <<"symbol", "(">>, <<"symbol", ")">> }

TokenReader(tokens) == [tokens |-> tokens, position |-> 0, trace |-> <<>>]

R(rd, r) == [reader |-> rd, res |-> r]

Traced(rd, name) == [rd EXCEPT !.trace = Append(@, name)]

RECURSIVE skip_hidden_tokens(_)
skip_hidden_tokens(rd) ==
    IF /\ rd.position < Len(rd.tokens)
       /\ rd.tokens[rd.position + 1].kind \in HiddenKinds
    THEN skip_hidden_tokens([rd EXCEPT !.position = @ + 1])
    ELSE rd

\* TokenReader::read_<kind>: the next token, hidden or not, if it is of kind k.
read_kind(rd, k) ==
    IF rd.position >= Len(rd.tokens) THEN R(rd, Err("UnexpectedEos", NoToken, ""))
    ELSE IF rd.tokens[rd.position + 1].kind = k
         THEN R([rd EXCEPT !.position = @ + 1], Ok(rd.tokens[rd.position + 1]))
         ELSE R([rd EXCEPT !.position = @ + 1],
                Err("UnexpectedToken", rd.tokens[rd.position + 1], k))

read_atom(rd) == read_kind(rd, "atom")

\* symbols::<S>::parse, S the symbol written v: as Atom::parse, with the
\* value compared.
Symbol_parse(rd0, v) ==
    Bind(skip_hidden_tokens(Traced(rd0, <<"parse", v>>)), LAMBDA rd :
    Bind(read_kind(rd, "symbol"), LAMBDA value :
        IF ~value.res.ok THEN value
        ELSE IF value.res.val.value # v
             THEN R(value.reader, Err("InvalidInput", value.res.val, v))
             ELSE R(value.reader, Ok([position |-> rd.position]))))

\* Parse::try_parse: Some(node), or None with the reader where it was.
Symbol_try_parse(rd0, v) ==
    Bind(Symbol_parse(rd0, v), LAMBDA x :
        IF x.res.ok THEN [reader |-> x.reader, opt |-> <<x.res.val>>]
        ELSE [reader |-> [x.reader EXCEPT !.position = rd0.position], opt |-> <<>>])

Symbol_token_start(n) == n.position
Symbol_token_end(n) == n.position + 1

\* Atom, the element type T the combinators are instantiated with.
Atom_parse(rd0) ==
    Bind(skip_hidden_tokens(Traced(rd0, <<"parse", "atom">>)), LAMBDA rd :
    Bind(read_atom(rd), LAMBDA value :
        IF ~value.res.ok THEN value
        ELSE R(value.reader, Ok([position |-> rd.position, value |-> value.res.val]))))

Atom_token_start(n) == n.position
Atom_token_end(n) == n.position + 1

\* SeqItem<T>, ListElement<T>, Arg<T>: a T and the comma after it, if any.
SeqItem_parse(rd) ==
    Bind(Atom_parse(rd), LAMBDA item :
        IF ~item.res.ok THEN item
        ELSE Bind(Symbol_try_parse(item.reader, ","), LAMBDA delimiter :
                 R(delimiter.reader,
                   Ok([item |-> item.res.val, delimiter |-> delimiter.opt]))))

SeqItem_token_start(n) == Atom_token_start(n.item)
SeqItem_token_end(n) ==
    IF n.delimiter = <<>> THEN Atom_token_end(n.item)
    ELSE Symbol_token_end(n.delimiter[1])

\* Clause<T>: a T and the semicolon after it, if any.
Clause_parse(rd) ==
    Bind(Atom_parse(rd), LAMBDA clause :
        IF ~clause.res.ok THEN clause
        ELSE Bind(Symbol_try_parse(clause.reader, ";"), LAMBDA delimiter :
                 R(delimiter.reader,
                   Ok([item |-> clause.res.val, delimiter |-> delimiter.opt]))))

Clause_token_start(n) == Atom_token_start(n.item)
Clause_token_end(n) ==
    IF n.delimiter = <<>> THEN Atom_token_end(n.item)
    ELSE Symbol_token_end(n.delimiter[1])

\* The loop ending, with the items it has, where an item after a delimiter
\* fails.
RECURSIVE SeqItems_tolerant(_, _)
SeqItems_tolerant(rd, items) ==
    Bind(SeqItem_parse(rd), LAMBDA x :
        IF ~x.res.ok
        THEN IF items = <<>> THEN x ELSE R(rd, Ok(items))
        ELSE IF x.res.val.delimiter = <<>>
             THEN R(x.reader, Ok(Append(items, x.res.val)))
             ELSE SeqItems_tolerant(x.reader, Append(items, x.res.val)))

\* The loop of Seq::parse, List::parse and Args::parse: items until one has
\* no delimiter; the first failure is the result.
RECURSIVE SeqItems(_, _)
SeqItems(rd, items) ==
    Bind(SeqItem_parse(rd), LAMBDA x :
        IF ~x.res.ok THEN x
        ELSE IF x.res.val.delimiter = <<>>
             THEN R(x.reader, Ok(Append(items, x.res.val)))
             ELSE SeqItems(x.reader, Append(items, x.res.val)))

\* The loop of Clauses::parse.
RECURSIVE ClauseItems(_, _)
ClauseItems(rd, clauses) ==
    Bind(Clause_parse(rd), LAMBDA c :
        IF ~c.res.ok THEN c
        ELSE IF c.res.val.delimiter = <<>>
             THEN R(c.reader, Ok(Append(clauses, c.res.val)))
             ELSE ClauseItems(c.reader, Append(clauses, c.res.val)))

\* Seq::parse yielding an empty Seq where the first item fails.
Seq_parse_or_empty(rd) ==
    Bind(SeqItems(rd, <<>>), LAMBDA items :
        IF ~items.res.ok
        THEN R(rd, Ok([position |-> rd.position, items |-> <<>>]))
        ELSE R(items.reader, Ok([position |-> rd.position, items |-> items.res.val])))

\* position is the reader's position on entry.
Seq_parse(rd) ==
    Bind(SeqItems(rd, <<>>), LAMBDA items :
        IF ~items.res.ok THEN items
        ELSE R(items.reader, Ok([position |-> rd.position, items |-> items.res.val])))

Seq_token_start(n) == n.position
Seq_token_end(n) == SeqItem_token_end(Last(n.items))

Clauses_parse(rd) ==
    Bind(ClauseItems(rd, <<>>), LAMBDA clauses :
        IF ~clauses.res.ok THEN clauses
        ELSE R(clauses.reader,
               Ok([position |-> rd.position, items |-> clauses.res.val])))

Clauses_token_start(n) == n.position
Clauses_token_end(n) ==
    IF n.items = <<>> THEN n.position ELSE Clause_token_end(Last(n.items))

\* The items of a List or Args, closed or not.
BracketedItems_unclosed(open, c) ==
    Bind(SeqItems(open.reader, <<>>), LAMBDA elements :
        IF ~elements.res.ok THEN elements
        ELSE Bind(Symbol_try_parse(elements.reader, c), LAMBDA close :
                 R(close.reader,
                   Ok([open |-> open.res.val, items |-> elements.res.val,
                       close |-> IF close.opt # <<>> THEN close.opt[1]
                                 ELSE open.res.val]))))

\* The items of a List or Args and its closing delimiter c, after open.
BracketedItems(open, c) ==
    Bind(SeqItems(open.reader, <<>>), LAMBDA elements :
        IF ~elements.res.ok THEN elements
        ELSE Bind(Symbol_parse(elements.reader, c), LAMBDA close :
                 IF ~close.res.ok THEN close
                 ELSE R(close.reader,
                        Ok([open |-> open.res.val, items |-> elements.res.val,
                            close |-> close.res.val]))))

\* The body List::parse and Args::parse share: open, then either close at
\* once, or items and close.
Bracketed(rd, o, c) ==
    Bind(Symbol_parse(rd, o), LAMBDA open :
        IF ~open.res.ok THEN open
        ELSE Bind(Symbol_try_parse(open.reader, c), LAMBDA close :
                 IF close.opt # <<>>
                 THEN R(close.reader,
                        Ok([open |-> open.res.val, items |-> <<>>,
                            close |-> close.opt[1]]))
                 ELSE BracketedItems(open, c)))

\* List::parse without the early return on an immediate close.
List_parse_no_early_return(rd) ==
    Bind(Symbol_parse(rd, "["), LAMBDA open :
        IF ~open.res.ok THEN open ELSE BracketedItems(open, "]"))

List_parse(rd) == Bracketed(rd, "[", "]")

List_token_start(n) == Symbol_token_start(n.open)
List_token_end(n) == Symbol_token_end(n.close)

Args_parse(rd) == Bracketed(rd, "(", ")")

Args_token_start(n) == Symbol_token_start(n.open)
Args_token_end(n) == Symbol_token_end(n.close)

\* A combinator is applied to a fresh reader over any token sequence; last
\* keeps the call and the reader it started on, result what it returned.
\* The token stream spelled by f, a sequence of <<kind, value>> pairs.
TokensOf(f) == [i \in DOMAIN f |-> Token(f[i][1], f[i][2], i)]

NewTokenReader(streams) ==
    /\ orig \in streams
    /\ reader = TokenReader(orig)
    /\ transactions = <<>>
    /\ stack = <<>>
    /\ result = NoResult
    /\ log = <<>>
    /\ last = [op |-> "new", reader |-> TokenReader(orig)]

Apply(op, r) ==
    /\ last.op = "new"
    /\ reader' = r.reader
    /\ result' = r.res
    /\ last' = [op |-> op, reader |-> reader]
    /\ UNCHANGED <<transactions, stack, orig, log>>

SeqParse == Apply("Seq", Seq_parse(reader))

ClausesParse == Apply("Clauses", Clauses_parse(reader))

ListParse == Apply("List", List_parse(reader))

ArgsParse == Apply("Args", Args_parse(reader))

InitComb ==
    \E n \in 0..MaxCombLen : \E f \in [1..n -> CombAlphabet] :
        NewTokenReader({TokensOf(f)})

NextComb ==
    \/ SeqParse
    \/ ClausesParse
    \/ ListParse
    \/ ArgsParse

SpecComb == InitComb /\ [][NextComb]_vars

\* The tokens a call consumed, hidden ones included, and the visible ones.
Consumed == SubSeq(orig, last.reader.position + 1, reader.position)
Visible(ts) == SelectSeq(ts, LAMBDA t : t.kind \notin HiddenKinds)
Values(ts) == [i \in DOMAIN ts |-> ts[i].value]

\* C12: a successfully parsed Seq or Clauses holds at least one element; on
\* an input with no token left, or whose first element does not parse, both
\* fail.
C12_AtLeastOne ==
    last.op \in {"Seq", "Clauses"} =>
        /\ result.ok => Len(result.val.items) >= 1
        /\ ~Atom_parse(last.reader).res.ok => ~result.ok
        /\ last.reader.tokens = <<>> => ~result.ok

C12_Witness ==
    /\ last.op = "Seq"
    /\ result.ok
    /\ Len(result.val.items) = 2

\* The first two visible tokens of the input are the symbols o and c.
Immediate(o, c) ==
    LET v == Visible(orig) IN
    /\ Len(v) >= 2
    /\ v[1].kind = "symbol" /\ v[1].value = o
    /\ v[2].kind = "symbol" /\ v[2].value = c

\* C13: List on `[` `]` and Args on `(` `)` succeed with zero elements,
\* call no element parser and no comma parser, and consume the two
\* delimiters and nothing after them.
C13_ImmediateCloseIsEmpty ==
    \A d \in { <<"List", "[", "]">>, <<"Args", "(", ")">> } :
        (last.op = d[1] /\ Immediate(d[2], d[3])) =>
            /\ result.ok
            /\ result.val.items = <<>>
            /\ reader.trace = << <<"parse", d[2]>>, <<"parse", d[3]>> >>
            /\ Values(Visible(Consumed)) = <<d[2], d[3]>>
            /\ reader.position = Visible(orig)[2].pos

C13_Witness ==
    /\ last.op = "Args"
    /\ Immediate("(", ")")
    /\ result.ok
    /\ Len(orig) = MaxCombLen
    /\ reader.position = 2

\* C14 as stated: a parsed Seq or Clauses starts where its first element
\* starts and ends where its last element ends, hidden tokens before the
\* first element or not; a parsed List or Args starts where its opening
\* delimiter starts and ends where its closing delimiter ends.
C14_CombinatorSpans ==
    /\ (last.op = "Seq" /\ result.ok) =>
           /\ Seq_token_start(result.val) = Atom_token_start(result.val.items[1].item)
           /\ Seq_token_end(result.val) = Atom_token_end(Last(result.val.items).item)
    /\ (last.op = "Clauses" /\ result.ok) =>
           /\ Clauses_token_start(result.val) = Atom_token_start(result.val.items[1].item)
           /\ Clauses_token_end(result.val) = Atom_token_end(Last(result.val.items).item)
    /\ (last.op = "List" /\ result.ok) =>
           /\ orig[List_token_start(result.val) + 1] = Visible(Consumed)[1]
           /\ orig[List_token_end(result.val)] = Last(Consumed)
           /\ List_token_start(result.val) = Symbol_token_start(result.val.open)
           /\ List_token_end(result.val) = Symbol_token_end(result.val.close)
    /\ (last.op = "Args" /\ result.ok) =>
           /\ orig[Args_token_start(result.val) + 1] = Visible(Consumed)[1]
           /\ orig[Args_token_end(result.val)] = Last(Consumed)
           /\ Args_token_start(result.val) = Symbol_token_start(result.val.open)
           /\ Args_token_end(result.val) = Symbol_token_end(result.val.close)

\* The number of tokens of ts that are the symbol v.
Count(ts, v) ==
    Cardinality({ i \in DOMAIN ts : ts[i].kind = "symbol" /\ ts[i].value = v })

\* The visible input is k >= 1 elements, each followed by the delimiter v,
\* and then no element.
TrailingDelimiter(v) ==
    \E k \in 1..Len(orig) :
        /\ Len(Visible(orig)) >= 2 * k
        /\ \A i \in 1..k :
               /\ Visible(orig)[2 * i - 1].kind = "atom"
               /\ Visible(orig)[2 * i].kind = "symbol"
               /\ Visible(orig)[2 * i].value = v
        /\ \/ Len(Visible(orig)) = 2 * k
           \/ Visible(orig)[2 * k + 1].kind # "atom"

\* C23: in a parsed Seq (Clauses) every item but the last carries a comma
\* (semicolon) and the last carries none, the items are one more than the
\* delimiters consumed, and the reader stops right after the last element,
\* whatever follows it; an input whose last delimiter is followed by no
\* element fails.
C23_StopsWhereNoDelimiterFollows ==
    \A d \in { <<"Seq", ",">>, <<"Clauses", ";">> } :
        last.op = d[1] =>
            /\ result.ok =>
                   /\ \A i \in 1..(Len(result.val.items) - 1) :
                          result.val.items[i].delimiter # <<>>
                   /\ Last(result.val.items).delimiter = <<>>
                   /\ Len(result.val.items) = Count(Consumed, d[2]) + 1
                   /\ Len(Visible(Consumed)) = 2 * Len(result.val.items) - 1
                   /\ reader.position = Atom_token_end(Last(result.val.items).item)
            /\ TrailingDelimiter(d[2]) => ~result.ok

C23_Witness ==
    /\ last.op = "Clauses"
    /\ result.ok
    /\ Len(result.val.items) = 2
    /\ reader.position < Len(orig)
    /\ orig[reader.position + 1].kind = "symbol"
    /\ orig[reader.position + 1].value = ","

\* The visible input starts with the symbol o, then k >= 1 elements with a
\* comma between each two, then the symbol c.
Enclosing(o, c) ==
    \E k \in 1..Len(orig) :
        /\ Len(Visible(orig)) >= 2 * k + 1
        /\ Visible(orig)[1].kind = "symbol" /\ Visible(orig)[1].value = o
        /\ \A i \in 1..k : Visible(orig)[2 * i].kind = "atom"
        /\ \A i \in 1..(k - 1) :
               /\ Visible(orig)[2 * i + 1].kind = "symbol"
               /\ Visible(orig)[2 * i + 1].value = ","
        /\ Visible(orig)[2 * k + 1].kind = "symbol"
        /\ Visible(orig)[2 * k + 1].value = c

\* C24: where the opening delimiter is not followed at once by the closing
\* one, a List or Args parses exactly on an input of one or more elements
\* separated by commas and followed by the closing delimiter; the node then
\* holds exactly the elements consumed, in input order, between the two
\* delimiters.  On every other input the result is a failure.
C24_ElementsThenClose ==
    \A d \in { <<"List", "[", "]">>, <<"Args", "(", ")">> } :
        (last.op = d[1] /\ ~Immediate(d[2], d[3])) =>
            /\ result.ok <=> Enclosing(d[2], d[3])
            /\ result.ok =>
                   /\ Len(result.val.items) >= 1
                   /\ [i \in DOMAIN result.val.items |-> result.val.items[i].item.value]
                          = SelectSeq(Consumed, LAMBDA t : t.kind = "atom")
                   /\ Count(Consumed, ",") = Len(result.val.items) - 1
                   /\ Values(Visible(Consumed))[1] = d[2]
                   /\ Last(Consumed).value = d[3]
                   /\ Len(Visible(Consumed)) = 2 * Len(result.val.items) + 1

C24_Witness ==
    /\ last.op = "List"
    /\ ~Immediate("[", "]")
    /\ result.ok
    /\ Len(result.val.items) = 2
    /\ reader.position = Len(orig)

\* ------------------------------------------------- expressions, patterns
\* cst/mod.rs.  A node is its variant and its span; a token's span is taken
\* from its place in the stream.
MaxExprLen == 4

start_position(t) == 2 * t.pos
end_position(t) == 2 * t.pos + 1

Node(variant, start, end) == [kind |-> "node", value |-> variant, pos |-> start, end |-> end]
Kind(name) == Token("kind", name, 0)

Then(q, r) == PR(q.reader, q.transactions, r)

\* Literal::parse
Literal_parse(p) ==
    Bind(next_token(p), LAMBDA r :
        IF ~r.res.ok THEN r
        ELSE IF r.res.val.kind \in {"atom", "char", "float", "integer", "string"}
             THEN Then(r, Ok(Node("Literal", start_position(r.res.val),
                                  end_position(r.res.val))))
             ELSE Then(r, Err("UnexpectedToken", r.res.val, "")))

\* parser.parse::<VariableToken>() as a node.
Variable_parse(p) ==
    Bind(parse_token(p, "variable"), LAMBDA r :
        IF ~r.res.ok THEN r
        ELSE Then(r, Ok(Node("Variable", start_position(r.res.val),
                             end_position(r.res.val)))))

\* RightKind::guess
RightKind_guess(p) ==
    Bind(next_token(p), LAMBDA r :
        IF r.res.ok /\ r.res.val.kind = "symbol"
        THEN CASE r.res.val.value = "(" -> Then(r, Ok(Kind("LocalCall")))
               [] r.res.val.value = ":" -> Then(r, Ok(Kind("RemoteCall")))
               [] OTHER -> Then(r, Ok(Kind("None")))
        ELSE Then(r, Ok(Kind("None"))))

RECURSIVE Expr_steps(_)
RECURSIVE Pattern_steps(_)

\* parser.parse::<U>() for the target type U of a classification.
Target_parse(p, U) ==
    IF U = "Expr" THEN Expr_steps(p).out ELSE Pattern_steps(p).out

\* The OpenSquare arm without the check for the separator.
LeftKind_open_square_any_element(r, U) ==
    Bind(Target_parse(r, U), LAMBDA e :
        IF ~e.res.ok THEN Then(e, Ok(Kind("List")))
        ELSE Then(e, Ok(Kind("ListComprehension"))))

\* The OpenSquare arm passing on the failure of the element or of the
\* separator.
LeftKind_open_square_propagating(r, U) ==
    Bind(Target_parse(r, U), LAMBDA e :
        IF ~e.res.ok THEN e
        ELSE Bind(expect(e, "symbol", "||"), LAMBDA x :
                 IF x.res.ok THEN Then(x, Ok(Kind("ListComprehension")))
                 ELSE x))

\* LeftKind::guess, Symbol::OpenSquare arm, r the parser after the `[`.
LeftKind_open_square(r, U) ==
    Bind(Target_parse(r, U), LAMBDA e :
        IF ~e.res.ok THEN Then(e, Ok(Kind("List")))
        ELSE Bind(expect(e, "symbol", "||"), LAMBDA x :
                 IF x.res.ok THEN Then(x, Ok(Kind("ListComprehension")))
                 ELSE Then(x, Ok(Kind("List")))))

\* The Sharp arm with the two kinds exchanged.
LeftKind_sharp_exchanged(r) ==
    Bind(next_token(r), LAMBDA n :
        IF ~n.res.ok THEN n
        ELSE IF n.res.val.kind = "atom"
             THEN Then(n, Ok(Kind("Map")))
             ELSE Then(n, Ok(Kind("Record"))))

\* LeftKind::guess, Symbol::Sharp arm, r the parser after the `#`.
LeftKind_sharp(r) ==
    Bind(next_token(r), LAMBDA n :
        IF ~n.res.ok THEN n
        ELSE IF n.res.val.kind = "atom"
             THEN Then(n, Ok(Kind("Record")))
             ELSE Then(n, Ok(Kind("Map"))))

\* The Keyword arm taking every other keyword for a literal.
LeftKind_keyword_lenient(r) ==
    CASE r.res.val.value = "begin" -> Then(r, Ok(Kind("Block")))
      [] r.res.val.value = "catch" -> Then(r, Ok(Kind("Catch")))
      [] OTHER -> Then(r, Ok(Kind("Literal")))

\* LeftKind::guess, LexicalToken::Keyword arm, r the parser after the keyword.
LeftKind_keyword(r) ==
    CASE r.res.val.value = "begin" -> Then(r, Ok(Kind("Block")))
      [] r.res.val.value = "catch" -> Then(r, Ok(Kind("Catch")))
      [] OTHER -> Then(r, Err("UnexpectedToken", r.res.val, ""))

\* LeftKind::guess::<T, U>
LeftKind_guess(p, U) ==
    Bind(next_token(p), LAMBDA r :
        IF ~r.res.ok THEN r
        ELSE CASE r.res.val.kind = "symbol" ->
                    CASE r.res.val.value = "{" -> Then(r, Ok(Kind("Tuple")))
                      [] r.res.val.value = "(" -> Then(r, Ok(Kind("Parenthesized")))
                      [] r.res.val.value = "[" -> LeftKind_open_square(r, U)
                      [] r.res.val.value = "#" -> LeftKind_sharp(r)
                      [] OTHER -> Then(r, Err("UnexpectedToken", r.res.val, ""))
               [] r.res.val.kind = "keyword" -> LeftKind_keyword(r)
               [] r.res.val.kind = "variable" -> Then(r, Ok(Kind("Variable")))
               [] OTHER -> Then(r, Ok(Kind("Literal"))))

\* The classification run in a transaction instead of a peek.
peek_LeftKind_committing(p, U) ==
    Bind(LeftKind_guess(start_transaction(p), U), LAMBDA q :
        transaction_return(q, q.res))

\* parser.peek(|parser| LeftKind::guess::<T, U>(parser))
peek_LeftKind(p, U) ==
    Bind(LeftKind_guess(start_transaction(p), U), LAMBDA q : peek_return(q, q.res))

\* The lookahead run in a transaction instead of a peek.
peek_RightKind_committing(p) ==
    Bind(RightKind_guess(start_transaction(p)), LAMBDA q :
        transaction_return(q, q.res))

\* parser.peek(|parser| Ok(RightKind::guess(parser)))
peek_RightKind(p) ==
    Bind(RightKind_guess(start_transaction(p)), LAMBDA q : peek_return(q, q.res))

\* The parsers of the expression shapes (exprs::*) and of call tails: the
\* least grammar that gives each classified shape a parse.
\* A run of expressions separated by commas; the result is the last one.
RECURSIVE Exprs(_)
Exprs(p) ==
    Bind(Expr_steps(p).out, LAMBDA e :
        IF ~e.res.ok THEN e
        ELSE Bind(expect(e, "symbol", ","), LAMBDA c :
                 IF c.res.ok THEN Exprs(c) ELSE Then(c, e.res)))

\* The node of the given variant from start to the end of the token q read.
Closed(q, variant, start) ==
    IF ~q.res.ok THEN q
    ELSE Then(q, Ok(Node(variant, start, end_position(q.res.val))))

\* open is read: close at once, or expressions and close.
EnclosedFrom(open, variant, start, ok, cv) ==
    Bind(expect(open, ok, cv), LAMBDA close :
        IF close.res.ok THEN Closed(close, variant, start)
        ELSE Bind(Exprs(open), LAMBDA es :
                 IF ~es.res.ok THEN es
                 ELSE Closed(expect(es, ok, cv), variant, start)))

\* open, then close at once or expressions and close; the node starts at
\* start, or at open where start is negative.
Enclosed(p, variant, start, ok, ov, cv) ==
    Bind(expect(p, ok, ov), LAMBDA open :
        IF ~open.res.ok THEN open
        ELSE EnclosedFrom(open, variant,
                          IF start < 0 THEN start_position(open.res.val) ELSE start,
                          ok, cv))

\* A token of the kind and value is read, then an expression: the parser
\* after the expression, with the token in res where both are read.
Prefixed(p, ok, ov) ==
    Bind(expect(p, ok, ov), LAMBDA first :
        IF ~first.res.ok THEN first
        ELSE Bind(Expr_steps(first).out, LAMBDA e :
                 [reader |-> e.reader, transactions |-> e.transactions,
                  res |-> e.res, first |-> first.res.val]))

\* parser.parse() of the shape LeftKind::guess chose.
Primary_parse(p, kind) ==
    CASE kind = "Literal" -> Literal_parse(p)
      [] kind = "Variable" -> Variable_parse(p)
      [] kind = "Tuple" -> Enclosed(p, kind, -1, "symbol", "{", "}")
      [] kind = "List" -> Enclosed(p, kind, -1, "symbol", "[", "]")
      [] kind = "Block" -> Enclosed(p, kind, -1, "keyword", "begin", "end")
      [] kind = "Parenthesized" ->
           Bind(Prefixed(p, "symbol", "("), LAMBDA e :
               IF ~e.res.ok THEN Then(e, e.res)
               ELSE Closed(expect(e, "symbol", ")"), kind, start_position(e.first)))
      [] kind = "Catch" ->
           Bind(Prefixed(p, "keyword", "catch"), LAMBDA e :
               IF ~e.res.ok THEN Then(e, e.res)
               ELSE Then(e, Ok(Node(kind, start_position(e.first), e.res.val.end))))
      [] kind = "ListComprehension" ->
           Bind(Prefixed(p, "symbol", "["), LAMBDA e :
               IF ~e.res.ok THEN Then(e, e.res)
               ELSE Enclosed(e, kind, start_position(e.first), "symbol", "||", "]"))
      [] kind = "Map" ->
           Bind(expect(p, "symbol", "#"), LAMBDA sharp :
               IF ~sharp.res.ok THEN sharp
               ELSE Enclosed(sharp, kind, start_position(sharp.res.val),
                             "symbol", "{", "}"))
      [] kind = "Record" ->
           Bind(expect(p, "symbol", "#"), LAMBDA sharp :
               IF ~sharp.res.ok THEN sharp
               ELSE Bind(parse_token(sharp, "atom"), LAMBDA name :
                        IF ~name.res.ok THEN name
                        ELSE Enclosed(name, kind, start_position(sharp.res.val),
                                      "symbol", "{", "}")))

\* parser.parse_left_recur(expr): the tail of a local or remote call.
parse_left_recur(p, head, kind) ==
    IF kind = "LocalCall" THEN Enclosed(p, kind, head.pos, "symbol", "(", ")")
    ELSE Bind(expect(p, "symbol", ":"), LAMBDA colon :
             IF ~colon.res.ok THEN colon
             ELSE Bind(parse_token(colon, "atom"), LAMBDA name :
                      IF ~name.res.ok THEN name
                      ELSE Enclosed(name, kind, head.pos, "symbol", "(", ")")))

\* What a parse returns when it ends at its step n with r.
Ended(n, left, r) ==
    [step |-> n, left |-> left, primary |-> r, right |-> r, out |-> r]

\* Expr::parse, with the parser after each of its steps: left is the
\* classification, primary the parse of the shape, right the lookahead, out
\* what it returns.
Expr_steps(p) ==
    Bind(peek_LeftKind(p, "Expr"), LAMBDA left :
        IF ~left.res.ok THEN Ended(1, left, left)
        ELSE Bind(Primary_parse(left, left.res.val.value), LAMBDA primary :
                 IF ~primary.res.ok THEN Ended(2, left, primary)
                 ELSE Bind(peek_RightKind(primary), LAMBDA right :
                          [step |-> 3, left |-> left, primary |-> primary,
                           right |-> right,
                           out |-> IF right.res.val.value = "None"
                                   THEN Then(right, primary.res)
                                   ELSE parse_left_recur(right, primary.res.val,
                                                         right.res.val.value)])))

Expr_parse(p) == Expr_steps(p).out

\* The last arm of Pattern::parse taking the token for a literal.
Pattern_other_shape_as_literal(left) ==
    Bind(next_token(left), LAMBDA t :
        IF ~t.res.ok THEN t
        ELSE Then(t, Ok(Node("Literal", start_position(t.res.val),
                             end_position(t.res.val)))))

\* Pattern::parse, the arm of every shape but Literal and Variable.
Pattern_other_shape(left) ==
    Bind(next_token(left), LAMBDA t :
        IF ~t.res.ok THEN t
        ELSE Then(t, Err("UnexpectedToken", t.res.val, "")))

\* Pattern::parse, in the same way.
Pattern_steps(p) ==
    Bind(peek_LeftKind(p, "Pattern"), LAMBDA left :
        IF ~left.res.ok THEN Ended(1, left, left)
        ELSE Ended(2, left,
                   CASE left.res.val.value = "Literal" -> Literal_parse(left)
                     [] left.res.val.value = "Variable" -> Variable_parse(left)
                     [] OTHER -> Pattern_other_shape(left)))

Pattern_parse(p) == Pattern_steps(p).out

\* Expr::parse or Pattern::parse is applied to a fresh parser.  The first
\* token of its input is any token of ExprAlphabet, the later ones those of
\* ExprTailAlphabet, which the two lookahead phases tell apart.
ExprTailAlphabet ==
    { <<"atom", "a">>, <<"variable", "X">>,
      <<"symbol", "{">>, <<"symbol", "}">>, <<"symbol", "(">>, <<"symbol", ")">>,
      <<"symbol", "[">>, <<"symbol", "]">>, <<"symbol", "#">>,
      <<"symbol", "||">>, <<"symbol", ":">> }

ExprAlphabet ==
    ExprTailAlphabet \cup
    { <<"char", "$c">>, <<"float", "0.5">>, <<"integer", "1">>, <<"string", "s">>,
      <<"keyword", "begin">>, <<"keyword", "catch">>, <<"keyword", "end">>,
      <<"symbol", ",">> }

Steps(op, steps) ==
    /\ last.op = "new"
    /\ Install(steps.out)
    /\ last' = [op |-> op, reader |-> reader, transactions |-> transactions,
                steps |-> steps]
    /\ UNCHANGED <<stack, orig, log>>

ExprParse == Steps("Expr", Expr_steps(Self))

PatternParse == Steps("Pattern", Pattern_steps(Self))

InitExpr ==
    \E n \in 0..MaxExprLen : \E f \in [1..n -> ExprAlphabet] :
        /\ \A i \in 2..n : f[i] \in ExprTailAlphabet
        /\ New({TokensOf(f)})

NextExpr ==
    \/ ExprParse
    \/ PatternParse

SpecExpr == InitExpr /\ [][NextExpr]_vars

\* The classification step of the last call: the kind it chose, if any.
Classified(name) ==
    /\ last.op \in {"Expr", "Pattern"}
    /\ last.steps.left.res = Ok(Kind(name))

\* C16: the first token decides: `{` Tuple, `(` Parenthesized, `begin`
\* Block, `catch` Catch, a variable Variable, an atom, char, float, integer
\* or string Literal; any other keyword and any symbol other than `{`, `(`,
\* `[`, `#` fails with UnexpectedToken carrying that token.
C16_FirstTokenClassifies ==
    (last.op \in {"Expr", "Pattern"} /\ orig # <<>>) =>
        LET t == orig[1] IN
        /\ (t.kind = "symbol" /\ t.value = "{") => Classified("Tuple")
        /\ (t.kind = "symbol" /\ t.value = "(") => Classified("Parenthesized")
        /\ (t.kind = "keyword" /\ t.value = "begin") => Classified("Block")
        /\ (t.kind = "keyword" /\ t.value = "catch") => Classified("Catch")
        /\ t.kind = "variable" => Classified("Variable")
        /\ t.kind \in {"atom", "char", "float", "integer", "string"} =>
               Classified("Literal")
        /\ (t.kind = "keyword" /\ t.value \notin {"begin", "catch"}) =>
               last.steps.left.res = Err("UnexpectedToken", t, "")
        /\ (t.kind = "symbol" /\ t.value \notin {"{", "(", "[", "#"}) =>
               last.steps.left.res = Err("UnexpectedToken", t, "")

C16_Witness ==
    /\ last.op = "Expr"
    /\ Len(orig) = MaxExprLen
    /\ orig[1].kind = "keyword" /\ orig[1].value = "end"
    /\ ~result.ok /\ result.kind = "UnexpectedToken" /\ result.val = orig[1]

\* C17: whatever the input, the parser after the classification step of
\* Expr::parse or Pattern::parse is the parser before it: the same pending
\* tokens and no buffer left, also after the `[` and `#` arms have read
\* further tokens, parsed an element and run an expect.
C17_ClassificationConsumesNothing ==
    last.op \in {"Expr", "Pattern"} =>
        /\ last.steps.left.reader = last.reader
        /\ last.steps.left.transactions = last.transactions

C17_Witness ==
    /\ last.op = "Expr"
    /\ Classified("ListComprehension")
    /\ Len(orig) = 3
    /\ last.steps.left.reader = orig

\* The input starts with the symbol v.
StartsWith(v) ==
    /\ orig # <<>>
    /\ orig[1].kind = "symbol" /\ orig[1].value = v

\* An element of the target type U parses on the tokens after the first
\* one, and `||` is the token after it.
ElementThenSeparator(U) ==
    Bind(Target_parse(P(Tail(orig), <<>>), U), LAMBDA e :
        /\ e.res.ok
        /\ e.reader # <<>>
        /\ Head(e.reader).kind = "symbol" /\ Head(e.reader).value = "||")

\* C18: on a first token `[` the classification is ListComprehension if an
\* element of the target type parses after it and `||` follows the element,
\* and List in every other case.
C18_ListOrComprehension ==
    (last.op \in {"Expr", "Pattern"} /\ StartsWith("[")) =>
        IF ElementThenSeparator(last.op)
        THEN Classified("ListComprehension")
        ELSE Classified("List")

C18_Witness ==
    /\ last.op = "Pattern"
    /\ StartsWith("[")
    /\ ElementThenSeparator("Pattern")
    /\ Classified("ListComprehension")

\* C19: on a first token `#` the classifier reads the token after it: the
\* classification is Record if that token is an atom and Map if it is any
\* other token.
C19_RecordOrMap ==
    (last.op \in {"Expr", "Pattern"} /\ StartsWith("#") /\ Len(orig) >= 2) =>
        IF orig[2].kind = "atom"
        THEN Classified("Record")
        ELSE Classified("Map")

C19_Witness ==
    /\ last.op = "Expr"
    /\ StartsWith("#")
    /\ Len(orig) >= 2
    /\ orig[2].kind = "symbol" /\ orig[2].value = "{"
    /\ Classified("Map")

\* The token pending once the primary of the last Expr::parse was parsed is
\* the symbol v.
PrimaryFollowedBy(v) ==
    LET rd == last.steps.primary.reader IN
    /\ rd # <<>>
    /\ Head(rd).kind = "symbol" /\ Head(rd).value = v

\* C20: once the primary is parsed, the lookahead succeeds and leaves the
\* parser as the primary left it; on `(` the result is a local call and on
\* `:` a remote call, either starting where the primary starts; on any
\* other token and at the end of the stream the result is the primary
\* itself and the token after it is still pending.
C20_CallLookahead ==
    (last.op = "Expr" /\ last.steps.step = 3) =>
        LET primary == last.steps.primary
            right == last.steps.right IN
        /\ right.res.ok
        /\ right.reader = primary.reader
        /\ right.transactions = primary.transactions
        /\ PrimaryFollowedBy("(") =>
               /\ right.res = Ok(Kind("LocalCall"))
               /\ result.ok => /\ result.val.value = "LocalCall"
                               /\ result.val.pos = primary.res.val.pos
        /\ PrimaryFollowedBy(":") =>
               /\ right.res = Ok(Kind("RemoteCall"))
               /\ result.ok => /\ result.val.value = "RemoteCall"
                               /\ result.val.pos = primary.res.val.pos
        /\ ~(PrimaryFollowedBy("(") \/ PrimaryFollowedBy(":")) =>
               /\ right.res = Ok(Kind("None"))
               /\ result = primary.res
               /\ reader = primary.reader
               /\ transactions = primary.transactions

C20_Witness ==
    /\ last.op = "Expr"
    /\ last.steps.step = 3
    /\ last.steps.right.res = Ok(Kind("None"))
    /\ result.ok /\ result.val.value = "Tuple"
    /\ reader # <<>>

\* The shapes Pattern::parse has no arm for.
OtherShapes ==
    { "Tuple", "Map", "Record", "List", "ListComprehension", "Block",
      "Parenthesized", "Catch" }

\* C21: Pattern::parse returns a node only for an input classified as
\* Literal or Variable; for an input classified as any other shape it fails
\* with UnexpectedToken carrying the first token of the input.
C21_PatternOnlyLiteralOrVariable ==
    last.op = "Pattern" =>
        /\ result.ok => (Classified("Literal") \/ Classified("Variable"))
        /\ \A k \in OtherShapes :
               Classified(k) => result = Err("UnexpectedToken", orig[1], "")

C21_Witness ==
    /\ last.op = "Pattern"
    /\ Classified("ListComprehension")
    /\ Len(orig) = MaxExprLen
    /\ result = Err("UnexpectedToken", orig[1], "")

\* The last call returned at its classification step, with its failure.
ClassificationFailed ==
    /\ last.op \in {"Expr", "Pattern"}
    /\ last.steps.step = 1

\* The last call returned at the committing parse of the chosen shape, with
\* its failure.
ShapeFailed ==
    /\ last.op \in {"Expr", "Pattern"}
    /\ last.steps.step = 2
    /\ ~last.steps.primary.res.ok

\* The speculative parse of an element after the `[`, or the expect of the
\* `||` after the element, fails.
SpeculationFails(U) ==
    Bind(Target_parse(P(Tail(orig), <<>>), U), LAMBDA e :
        \/ ~e.res.ok
        \/ ~expect(e, "symbol", "||").res.ok)

\* A failure the classifier raises itself: a read at the end of the stream,
\* or a first token that starts no shape.
ClassifierFailure(r) ==
    \/ /\ orig = <<>>
       /\ r = Err("UnexpectedEos", NoToken, "")
    \/ /\ StartsWith("#") /\ Len(orig) = 1
       /\ r = Err("UnexpectedEos", NoToken, "")
    \/ /\ orig # <<>>
       /\ \/ orig[1].kind = "keyword" /\ orig[1].value \notin {"begin", "catch"}
          \/ orig[1].kind = "symbol" /\ orig[1].value \notin {"{", "(", "[", "#"}
       /\ r = Err("UnexpectedToken", orig[1], "")

\* C22 as stated: no failure raised inside the classification reaches the
\* caller of Expr::parse or Pattern::parse, and a failure of the committing
\* parse of the chosen shape is what the caller gets.
C22_ClassificationFailuresNeverReachCaller ==
    /\ ~ClassificationFailed
    /\ ShapeFailed => result = last.steps.primary.res

\* C22: the failures of the speculative element parse and of the expect of
\* `||` in the `[` arm are caught and only choose between List and
\* ListComprehension; a failure the classifier raises itself (a read at the
\* end of the stream, a first token that starts no shape) reaches the caller
\* as it is, with the stream restored; a failure of the committing parse of
\* the chosen shape reaches the caller as it is, with nothing read after it.
C22_OnlySpeculationFailuresAreCaught ==
    last.op \in {"Expr", "Pattern"} =>
        /\ StartsWith("[") =>
               /\ last.steps.left.res.ok
               /\ SpeculationFails(last.op) => Classified("List")
        /\ ClassificationFailed =>
               /\ ClassifierFailure(last.steps.left.res)
               /\ result = last.steps.left.res
               /\ reader = orig /\ transactions = <<>>
        /\ ShapeFailed =>
               /\ result = last.steps.primary.res
               /\ reader = last.steps.primary.reader
               /\ transactions = last.steps.primary.transactions

C22_Witness ==
    /\ last.op = "Expr"
    /\ StartsWith("[")
    /\ ~Target_parse(P(Tail(orig), <<>>), "Expr").res.ok
    /\ Classified("List")
    /\ ShapeFailed

\* ------------------------------------------ parts of clauses and forms
\* cst/clauses/parts.rs, cst/forms/parts.rs.  Each parse builds its node
\* from its fields in the order it reads them; the node's span is what its
\* PositionRange computes from the fields.
MaxPartsLen == 5

PartsAlphabet ==
    { <<"atom", "a">>, <<"variable", "X">>, <<"keyword", "when">>,
      <<"symbol", ":">>, <<"symbol", "=">>, <<"symbol", "::">> }

NoNode == Node("None", 0, 0)

\* AtomOrVariable::parse; Type::parse, a type being at least a name or a
\* type variable.
AtomOrVariable_parse(p) ==
    Bind(next_token(p), LAMBDA r :
        IF ~r.res.ok THEN r
        ELSE IF r.res.val.kind \in {"atom", "variable"}
             THEN Then(r, Ok(Node("AtomOrVariable", start_position(r.res.val),
                                  end_position(r.res.val))))
             ELSE Then(r, Err("UnexpectedToken", r.res.val, "")))

Type_parse(p) == AtomOrVariable_parse(p)

\* Clauses<Sequence<GuardTest>>::parse: runs of guard tests separated by
\* semicolons; the result is the last test.
RECURSIVE GuardClauses(_)
GuardClauses(p) ==
    Bind(Exprs(p), LAMBDA seq :
        IF ~seq.res.ok THEN seq
        ELSE Bind(expect(seq, "symbol", ";"), LAMBDA c :
                 IF c.res.ok THEN GuardClauses(c) ELSE Then(c, seq.res)))

\* Option<T>::parse, q being T::parse run on start_transaction(p): Some(node),
\* or None with the parser where it was.
Optional(q) ==
    Bind(transaction_return(q, q.res), LAMBDA t :
        IF q.res.ok THEN t ELSE Then(t, Ok(NoNode)))

ExceptionClass_parse(p) ==
    Bind(AtomOrVariable_parse(p), LAMBDA class :
        IF ~class.res.ok THEN class
        ELSE Bind(expect(class, "symbol", ":"), LAMBDA colon :
                 IF ~colon.res.ok THEN colon
                 ELSE Then(colon, Ok(Node("ExceptionClass", class.res.val.pos,
                                          end_position(colon.res.val))))))

StackTrace_parse(p) ==
    Bind(expect(p, "symbol", ":"), LAMBDA colon :
        IF ~colon.res.ok THEN colon
        ELSE Bind(parse_token(colon, "variable"), LAMBDA variable :
                 IF ~variable.res.ok THEN variable
                 ELSE Then(variable,
                           Ok(Node("StackTrace", start_position(colon.res.val),
                                   end_position(variable.res.val))))))

WhenGuard_parse(p) ==
    Bind(expect(p, "keyword", "when"), LAMBDA when :
        IF ~when.res.ok THEN when
        ELSE Bind(GuardClauses(when), LAMBDA seq :
                 IF ~seq.res.ok THEN seq
                 ELSE Then(seq, Ok(Node("WhenGuard", start_position(when.res.val),
                                        seq.res.val.end)))))

RecordFieldDefault_parse(p) ==
    Bind(expect(p, "symbol", "="), LAMBDA match :
        IF ~match.res.ok THEN match
        ELSE Bind(Expr_parse(match), LAMBDA value :
                 IF ~value.res.ok THEN value
                 ELSE Then(value,
                           Ok(Node("RecordFieldDefault", start_position(match.res.val),
                                   value.res.val.end)))))

RecordFieldType_parse(p) ==
    Bind(expect(p, "symbol", "::"), LAMBDA double_colon :
        IF ~double_colon.res.ok THEN double_colon
        ELSE Bind(Type_parse(double_colon), LAMBDA field_type :
                 IF ~field_type.res.ok THEN field_type
                 ELSE Then(field_type,
                           Ok(Node("RecordFieldType",
                                   start_position(double_colon.res.val),
                                   field_type.res.val.end)))))

\* RecordFieldDecl::end_position preferring the default to the type.
RecordFieldDecl_end_position_default_first(field_name, field_default, field_type) ==
    IF field_default # NoNode THEN field_default.end
    ELSE IF field_type # NoNode THEN field_type.end
    ELSE end_position(field_name)

RecordFieldDecl_end_position(field_name, field_default, field_type) ==
    IF field_type # NoNode THEN field_type.end
    ELSE IF field_default # NoNode THEN field_default.end
    ELSE end_position(field_name)

RecordFieldDecl_parse(p) ==
    Bind(parse_token(p, "atom"), LAMBDA field_name :
        IF ~field_name.res.ok THEN field_name
        ELSE Bind(Optional(RecordFieldDefault_parse(start_transaction(field_name))),
                  LAMBDA field_default :
             Bind(Optional(RecordFieldType_parse(start_transaction(field_default))),
                  LAMBDA field_type :
                 Then(field_type,
                      Ok([kind |-> "node", value |-> "RecordFieldDecl",
                          pos |-> start_position(field_name.res.val),
                          end |-> RecordFieldDecl_end_position(
                                      field_name.res.val, field_default.res.val,
                                      field_type.res.val),
                          field_default |-> field_default.res.val,
                          field_type |-> field_type.res.val])))))

\* A node parser is applied to a fresh parser over any stream of
\* PartsAlphabet.
Part(op, r) ==
    /\ last.op = "new"
    /\ Install(r)
    /\ last' = [op |-> op, reader |-> reader, transactions |-> transactions]
    /\ UNCHANGED <<stack, orig, log>>

LiteralParse == Part("Literal", Literal_parse(Self))

ExceptionClassParse == Part("ExceptionClass", ExceptionClass_parse(Self))

StackTraceParse == Part("StackTrace", StackTrace_parse(Self))

WhenGuardParse == Part("WhenGuard", WhenGuard_parse(Self))

RecordFieldDeclParse == Part("RecordFieldDecl", RecordFieldDecl_parse(Self))

RecordFieldDefaultParse == Part("RecordFieldDefault", RecordFieldDefault_parse(Self))

RecordFieldTypeParse == Part("RecordFieldType", RecordFieldType_parse(Self))

InitParts ==
    \E n \in 0..MaxPartsLen : \E f \in [1..n -> PartsAlphabet] :
        New({TokensOf(f)})

NextParts ==
    \/ ExprParse
    \/ PatternParse
    \/ LiteralParse
    \/ ExceptionClassParse
    \/ StackTraceParse
    \/ WhenGuardParse
    \/ RecordFieldDeclParse
    \/ RecordFieldDefaultParse
    \/ RecordFieldTypeParse

SpecParts == InitParts /\ [][NextParts]_vars

\* The tokens the last call consumed: those of the stream no longer pending.
ConsumedTokens == SubSeq(orig, 1, Len(orig) - Len(reader))

\* C15: a node parsed by Expr, Pattern, Literal, ExceptionClass, StackTrace,
\* WhenGuard, RecordFieldDecl, RecordFieldDefault or RecordFieldType starts
\* where the first token its parse consumed starts and ends where the last
\* token it consumed ends; a RecordFieldDecl ends with its type if it has
\* one, else with its default if it has one, else with its field name.
C15_NodeSpansConsumedTokens ==
    (last.op # "new" /\ result.ok) =>
        /\ ConsumedTokens # <<>>
        /\ reader = SubSeq(orig, Len(ConsumedTokens) + 1, Len(orig))
        /\ result.val.pos = start_position(ConsumedTokens[1])
        /\ result.val.end = end_position(Last(ConsumedTokens))
        /\ last.op = "RecordFieldDecl" =>
               result.val.end =
                   IF result.val.field_type # NoNode THEN result.val.field_type.end
                   ELSE IF result.val.field_default # NoNode
                        THEN result.val.field_default.end
                        ELSE end_position(orig[1])

C15_Witness ==
    /\ last.op = "RecordFieldDecl"
    /\ result.ok
    /\ result.val.field_default # NoNode
    /\ result.val.field_type # NoNode
    /\ reader = <<>>

\* ------------------------------------------------------------ termination
\* The loops of cst/primitives.rs one iteration at a time.  reader is the
\* TokenReader, stack the items pushed so far, last.op the place of the
\* call: "reader" before it, "<routine>_loop" in its loop, "<routine>" once
\* it has returned.
InitLoop ==
    \E n \in 0..MaxCombLen : \E f \in [1..n -> CombAlphabet] :
        /\ orig = TokensOf(f)
        /\ reader = TokenReader(orig)
        /\ transactions = <<>>
        /\ stack = <<>>
        /\ result = NoResult
        /\ log = <<>>
        /\ last = [op |-> "reader", reader |-> reader, open |-> <<>>]

Loops == {"Seq_loop", "Clauses_loop", "List_loop", "Args_loop"}
Routine(loop) ==
    CASE loop = "Seq_loop" -> "Seq"
      [] loop = "Clauses_loop" -> "Clauses"
      [] loop = "List_loop" -> "List"
      [] loop = "Args_loop" -> "Args"
Closing(loop) == IF loop = "List_loop" THEN "]" ELSE ")"

\* The call after a step: where it is, its reader, the items pushed, the
\* opening delimiter it holds, and what it has returned.
At(op, rd, items, open, r) ==
    [op |-> op, reader |-> rd, items |-> items, open |-> open, res |-> r]

\* The routine returns r.
Return(loop, r) == At(Routine(loop), r.reader, <<>>, <<>>, r.res)

\* List::parse and Args::parse up to their loop: the opening delimiter o,
\* and the early return where the closing delimiter c follows.
bracket_enter(loop, rd, o, c) ==
    Bind(Symbol_parse(rd, o), LAMBDA open :
        IF ~open.res.ok THEN Return(loop, open)
        ELSE Bind(Symbol_try_parse(open.reader, c), LAMBDA close :
                 IF close.opt # <<>>
                 THEN Return(loop, R(close.reader,
                                     Ok([open |-> open.res.val, items |-> <<>>,
                                         close |-> close.opt[1]])))
                 ELSE At(loop, open.reader, <<>>, <<open.res.val>>, NoResult)))

\* What the routine does once its loop has pushed the last item; entry is
\* the reader the routine was called on.
after_loop(loop, entry, rd, items, open) ==
    IF loop \in {"Seq_loop", "Clauses_loop"}
    THEN R(rd, Ok([position |-> entry.position, items |-> items]))
    ELSE Bind(Symbol_parse(rd, Closing(loop)), LAMBDA close :
             IF ~close.res.ok THEN close
             ELSE R(close.reader,
                    Ok([open |-> open[1], items |-> items,
                        close |-> close.res.val])))

\* The loop going on after every item, up to the first that fails.
loop_iterate_ignoring_is_last(loop, entry, rd, items, open) ==
    Bind(IF loop = "Clauses_loop" THEN Clause_parse(rd) ELSE SeqItem_parse(rd),
         LAMBDA x :
        IF ~x.res.ok THEN Return(loop, x)
        ELSE At(loop, x.reader, Append(items, x.res.val), open, NoResult))

\* One iteration of the loop: an item is parsed and pushed; the loop goes
\* on if the item has a delimiter.
loop_iterate(loop, entry, rd, items, open) ==
    Bind(IF loop = "Clauses_loop" THEN Clause_parse(rd) ELSE SeqItem_parse(rd),
         LAMBDA x :
        IF ~x.res.ok THEN Return(loop, x)
        ELSE IF x.res.val.delimiter = <<>>
             THEN Return(loop, after_loop(loop, entry, x.reader,
                                          Append(items, x.res.val), open))
             ELSE At(loop, x.reader, Append(items, x.res.val), open, NoResult))

\* The call takes a step to n.
Step(n) ==
    /\ reader' = n.reader
    /\ stack' = n.items
    /\ result' = n.res
    /\ last' = [op |-> n.op, reader |-> last.reader, open |-> n.open]
    /\ UNCHANGED <<transactions, orig, log>>

\* Seq::parse and Clauses::parse up to their loop.
LoopEnter ==
    /\ last.op = "reader"
    /\ \E loop \in {"Seq_loop", "Clauses_loop"} :
           Step(At(loop, reader, <<>>, <<>>, NoResult))

BracketEnter ==
    /\ last.op = "reader"
    /\ \E d \in { <<"List_loop", "[", "]">>, <<"Args_loop", "(", ")">> } :
           Step(bracket_enter(d[1], reader, d[2], d[3]))

LoopIterate ==
    /\ last.op \in Loops
    /\ Step(loop_iterate(last.op, last.reader, reader, stack, last.open))

\* Any routine is called once, on a reader or on a parser; a call that has
\* begun goes on.
InitTermination == InitLoop \/ InitExpr

NextTermination ==
    \/ LoopEnter
    \/ BracketEnter
    \/ LoopIterate
    \/ ExprParse
    \/ PatternParse

SpecTermination ==
    InitTermination /\ [][NextTermination]_vars /\ WF_vars(NextTermination)

\* The call has returned.
Returned == last.op \in {"Seq", "Clauses", "List", "Args", "Expr", "Pattern"}

\* A loop that goes on has pushed one item and has consumed, since its last
\* iteration, an element and a delimiter and no other visible token.
LoopProgress ==
    (last.op \in Loops /\ last'.op \in Loops) =>
        /\ Len(stack') = Len(stack) + 1
        /\ reader'.position >= reader.position + 2
        /\ Len(Visible(SubSeq(orig, reader.position + 1, reader'.position))) = 2
        /\ Last(stack').delimiter # <<>>

\* The classification of Expr::parse and Pattern::parse has left the stream
\* as it was, and a parse of the chosen shape that succeeded has consumed
\* a token.
ShapeProgress ==
    last.op \in {"Expr", "Pattern"} =>
        /\ last.steps.left.reader = last.reader
        /\ (last.steps.step >= 2 /\ last.steps.primary.res.ok) =>
               Len(last.steps.primary.reader) < Len(last.reader)

\* The loops run one iteration at a time return what the routines return.
LoopsReturnAsRoutines ==
    /\ last.op = "Seq" => R(reader, result) = Seq_parse(last.reader)
    /\ last.op = "Clauses" => R(reader, result) = Clauses_parse(last.reader)
    /\ last.op = "List" => R(reader, result) = List_parse(last.reader)
    /\ last.op = "Args" => R(reader, result) = Args_parse(last.reader)

\* C27: every call returns; the loops of Seq, Clauses, List and Args run
\* another iteration only once they have consumed an element and a
\* delimiter; the classification of Expr::parse and Pattern::parse leaves
\* the stream as it was and the parse of the shape after it consumes a token
\* or fails.
C27_ParsingTerminates ==
    /\ <>Returned
    /\ [][LoopProgress]_vars
    /\ []ShapeProgress
    /\ []LoopsReturnAsRoutines

\* An Args returned after its loop had run twice.
C27_Witness ==
    /\ last.op = "Args"
    /\ result.ok
    /\ Len(result.val.items) = 2
    /\ reader.position = MaxCombLen
====
